---- MODULE Spec2Model ----
(***************************************************************************)
(* albumentations/core/utils.py: Params and DataProcessor.                 *)
(*                                                                         *)
(* A DataProcessor is built once from its Params (format, label_fields)    *)
(* and the additional_targets of the pipeline.  For every image the caller *)
(* hands it a data mapping: preprocess merges the label fields into the    *)
(* rows of every data field and converts the rows to the albumentations    *)
(* format, postprocess filters, converts back and splits the labels off.   *)
(* The public helpers add_label_fields_to_data, remove_label_fields_from_  *)
(* data, check_and_convert and get_shape are also callable on their own.   *)
(*                                                                         *)
(* Rows are sequences of integers (coordinates, then label values).        *)
(* Coordinates of the albumentations format are fractions of the image     *)
(* size, kept here in fixed point with denominator NormUnit.               *)
(* An Optional value is a set: {} is None, {x} is x.                       *)
(***************************************************************************)
EXTENDS Integers, Sequences, FiniteSets, TLC

\* Largest number of rows (and of label values) in one field of a mapping.
MaxRows == 2

\* Denominator of the fixed-point albumentations coordinates: NormUnit is 1.0.
NormUnit == 4

VARIABLES
    params,              \* self.params: [format, label_fields]
    additional_targets,  \* the constructor's argument, Optional dict as a sequence of <<key, value>>
    data_fields,         \* self.data_fields
    data,                \* the caller's data mapping (mutated in place)
    phase,               \* the last call made on the mapping
    ret,                 \* what the last call returned or raised
    calls,               \* the calls made on the abstract methods since the mapping was loaded
    orig,                \* the mapping as the caller loaded it
    prev,                \* the mapping before the last call
    staged               \* postprocess: the mapping when its loop over data_fields ended

vars == <<params, additional_targets, data_fields, data, phase, ret, calls, orig, prev, staged>>

None == {}
Some(x) == {x}
Val(o) == CHOOSE x \in o : TRUE

Range(s) == {s[i] : i \in 1..Len(s)}
SeqsUpTo(S, n) == UNION {[1..k -> S] : k \in 0..n}

\* One call on an abstract method or a helper, as seen from inside `by`.
Ev(by, op, field, h, w) == [by |-> by, op |-> op, field |-> field, h |-> h, w |-> w]

(***************************************************************************)
(* The concrete processor: a bounding-box processor.                       *)
(***************************************************************************)
default_data_name == "bboxes"

\* Number of coordinate columns of a row of this kind (x_min, y_min, x_max, y_max).
CoordCols(row) == IF Len(row) < 4 THEN Len(row) ELSE 4

\* Column k of a row is an x (scaled by cols) when odd, a y (scaled by rows) when even.
Dim(k, rows, cols) == IF k % 2 = 1 THEN cols ELSE rows

convert_to_internal_type(rs) == rs
convert_to_original_type(rs) == rs

\* Pixel coordinates to fractions of the image size; label columns are kept.
convert_to_albumentations(rs, rows, cols) ==
    [i \in 1..Len(rs) |->
        [k \in 1..Len(rs[i]) |->
            IF k <= CoordCols(rs[i]) THEN (rs[i][k] * NormUnit) \div Dim(k, rows, cols)
            ELSE rs[i][k]]]

\* Fractions of the image size to pixel coordinates; label columns are kept.
convert_from_albumentations(rs, rows, cols) ==
    [i \in 1..Len(rs) |->
        [k \in 1..Len(rs[i]) |->
            IF k <= CoordCols(rs[i]) THEN (rs[i][k] * Dim(k, rows, cols)) \div NormUnit
            ELSE rs[i][k]]]

\* A row is valid when every coordinate lies in [0.0, 1.0].
ValidRow(row) == \A k \in 1..CoordCols(row) : row[k] >= 0 /\ row[k] <= NormUnit

check(rs, rows, cols) == \A i \in 1..Len(rs) : ValidRow(rs[i])

RECURSIVE Keep(_)
Keep(rs) ==
    IF rs = <<>> THEN <<>>
    ELSE IF ValidRow(Head(rs)) THEN <<Head(rs)>> \o Keep(Tail(rs))
    ELSE Keep(Tail(rs))

\* Drops the rows that lie outside the image.
filter(rs, rows, cols, target_name) == Keep(rs)

(***************************************************************************)
(* get_shape                                                               *)
(***************************************************************************)
get_shape(img) ==
    IF img.kind = "ndarray"
    THEN [st |-> "ok", val |-> SubSeq(img.shape, 1, 2)]
    ELSE IF img.kind = "tensor"
    THEN [st |-> "ok", val |-> SubSeq(img.shape, Len(img.shape) - 1, Len(img.shape))]
    ELSE [st |-> "RuntimeError", val |-> <<>>]

(***************************************************************************)
(* DataProcessor.__init__                                                  *)
(***************************************************************************)
RECURSIVE Aliases(_)
Aliases(items) ==
    IF items = <<>> THEN <<>>
    ELSE IF Head(items)[2] = default_data_name
    THEN <<Head(items)[1]>> \o Aliases(Tail(items))
    ELSE Aliases(Tail(items))

DataFieldsOf_every_key(targets) ==
    IF targets = None THEN <<default_data_name>>
    ELSE <<default_data_name>> \o [i \in 1..Len(Val(targets)) |-> Val(targets)[i][1]]

DataFieldsOf(targets) ==
    IF targets = None THEN <<default_data_name>>
    ELSE <<default_data_name>> \o Aliases(Val(targets))

(***************************************************************************)
(* DataProcessor.check_and_convert                                         *)
(***************************************************************************)
check_and_convert_swapped(rs, rows, cols, direction) ==
    IF params.format = "albumentations"
    THEN [st    |-> IF check(rs, rows, cols) THEN "ok" ELSE "CheckError",
          val   |-> rs,
          calls |-> <<Ev("check_and_convert", "check", "", rows, cols)>>]
    ELSE IF direction = "from"
    THEN [st    |-> "ok",
          val   |-> convert_to_albumentations(rs, rows, cols),
          calls |-> <<Ev("check_and_convert", "convert_to_albumentations", "", rows, cols)>>]
    ELSE [st    |-> "ok",
          val   |-> convert_from_albumentations(rs, rows, cols),
          calls |-> <<Ev("check_and_convert", "convert_from_albumentations", "", rows, cols)>>]

check_and_convert_sentinel_to_only(rs, rows, cols, direction) ==
    IF params.format = "albumentations" /\ direction = "to"
    THEN [st    |-> IF check(rs, rows, cols) THEN "ok" ELSE "CheckError",
          val   |-> rs,
          calls |-> <<Ev("check_and_convert", "check", "", rows, cols)>>]
    ELSE IF direction = "to"
    THEN [st    |-> "ok",
          val   |-> convert_to_albumentations(rs, rows, cols),
          calls |-> <<Ev("check_and_convert", "convert_to_albumentations", "", rows, cols)>>]
    ELSE IF direction = "from"
    THEN [st    |-> "ok",
          val   |-> convert_from_albumentations(rs, rows, cols),
          calls |-> <<Ev("check_and_convert", "convert_from_albumentations", "", rows, cols)>>]
    ELSE [st |-> "ValueError", val |-> rs, calls |-> <<>>]

check_and_convert(rs, rows, cols, direction) ==
    IF params.format = "albumentations"
    THEN [st    |-> IF check(rs, rows, cols) THEN "ok" ELSE "CheckError",
          val   |-> rs,
          calls |-> <<Ev("check_and_convert", "check", "", rows, cols)>>]
    ELSE IF direction = "to"
    THEN [st    |-> "ok",
          val   |-> convert_to_albumentations(rs, rows, cols),
          calls |-> <<Ev("check_and_convert", "convert_to_albumentations", "", rows, cols)>>]
    ELSE IF direction = "from"
    THEN [st    |-> "ok",
          val   |-> convert_from_albumentations(rs, rows, cols),
          calls |-> <<Ev("check_and_convert", "convert_from_albumentations", "", rows, cols)>>]
    ELSE [st |-> "ValueError", val |-> rs, calls |-> <<>>]

(***************************************************************************)
(* DataProcessor.add_label_fields_to_data                                  *)
(***************************************************************************)
\* zip(data[data_name], data[field]) with the field value appended to each row.
Zipped(rs, ls) == [k \in 1..Len(rs) |-> Append(rs[k], ls[k])]

LengthsDiffer_short(rs, ls) == Len(rs) > Len(ls)

\* not len(data[data_name]) == len(data[field])
LengthsDiffer(rs, ls) == Len(rs) # Len(ls)

RECURSIVE AddLoop(_, _, _)
AddLoop(d, i, j) ==
    LET fields == Val(params.label_fields) IN
    IF i > Len(data_fields) THEN [st |-> "ok", data |-> d]
    ELSE IF j > Len(fields) THEN AddLoop(d, i + 1, 1)
    ELSE LET data_name == data_fields[i]
             field == fields[j]
         IN  IF LengthsDiffer(d[data_name], d[field])
             THEN [st |-> "ValueError", data |-> d]
             ELSE AddLoop([d EXCEPT ![data_name] = Zipped(d[data_name], d[field])], i, j + 1)

add_label_fields_to_data(d) ==
    IF params.label_fields = None THEN [st |-> "ok", data |-> d]
    ELSE AddLoop(d, 1, 1)

(***************************************************************************)
(* DataProcessor.remove_label_fields_from_data                             *)
(***************************************************************************)
FromEnd_reversed(row, n, idx) == row[Len(row) - idx]

\* bbox[-label_fields_len + idx], idx counted from 0: an index from the end.
FromEnd(row, n, idx) == row[Len(row) - n + idx + 1]

\* d[:-n]
DropLast(row, n) == SubSeq(row, 1, Len(row) - n)

RECURSIVE RemoveLoop(_, _, _)
RemoveLoop(d, i, idx) ==
    LET fields == Val(params.label_fields)
        n == Len(fields)
    IN  IF i > Len(data_fields) THEN [st |-> "ok", data |-> d]
        ELSE LET data_name == data_fields[i] IN
             IF idx >= n
             THEN RemoveLoop(
                    IF n # 0
                    THEN [d EXCEPT ![data_name] =
                            [k \in 1..Len(d[data_name]) |-> DropLast(d[data_name][k], n)]]
                    ELSE d,
                    i + 1, 0)
             ELSE IF \E k \in 1..Len(d[data_name]) : Len(d[data_name][k]) < n - idx
             THEN [st |-> "IndexError", data |-> d]
             ELSE RemoveLoop(
                    [d EXCEPT ![fields[idx + 1]] =
                        [k \in 1..Len(d[data_name]) |-> FromEnd(d[data_name][k], n, idx)]],
                    i, idx + 1)

remove_label_fields_from_data(d) ==
    IF params.label_fields = None THEN [st |-> "ok", data |-> d]
    ELSE RemoveLoop(d, 1, 0)

(***************************************************************************)
(* DataProcessor.preprocess                                                *)
(***************************************************************************)
ShapePrefix_swapped(img) ==
    IF img.kind \in {"ndarray", "tensor"}
    THEN [st |-> "ok", val |-> <<img.shape[2], img.shape[1]>>]
    ELSE [st |-> "AttributeError", val |-> <<>>]

\* data["image"].shape[:2]
ShapePrefix(img) ==
    IF img.kind \in {"ndarray", "tensor"}
    THEN [st |-> "ok", val |-> SubSeq(img.shape, 1, 2)]
    ELSE [st |-> "AttributeError", val |-> <<>>]

RECURSIVE PreLoop(_, _, _, _, _)
PreLoop(d, i, rows, cols, cs) ==
    IF i > Len(data_fields) THEN [st |-> "ok", data |-> d, calls |-> cs]
    ELSE LET data_name == data_fields[i]
             internal == convert_to_internal_type(d[data_name])
             r == check_and_convert(internal, rows, cols, "to")
             cs2 == cs \o <<Ev("preprocess", "convert_to_internal_type", data_name, 0, 0)>>
                       \o r.calls
         IN  IF r.st # "ok"
             THEN [st |-> r.st, data |-> [d EXCEPT ![data_name] = internal], calls |-> cs2]
             ELSE PreLoop([d EXCEPT ![data_name] = r.val], i + 1, rows, cols, cs2)

preprocess(d) ==
    LET a == add_label_fields_to_data(d)
        cs == <<Ev("preprocess", "add_label_fields_to_data", "", 0, 0)>>
        s == ShapePrefix(d["image"])
    IN  IF a.st # "ok" THEN [st |-> a.st, kind |-> "raise", data |-> a.data, calls |-> cs]
        ELSE IF s.st # "ok" THEN [st |-> s.st, kind |-> "raise", data |-> a.data, calls |-> cs]
        ELSE LET r == PreLoop(a.data, 1, s.val[1], s.val[2], cs)
             IN  [st    |-> r.st,
                  kind  |-> IF r.st = "ok" THEN "None" ELSE "raise",
                  data  |-> r.data,
                  calls |-> r.calls]

(***************************************************************************)
(* DataProcessor.postprocess                                               *)
(***************************************************************************)
RECURSIVE PostLoop_convert_first(_, _, _, _, _)
PostLoop_convert_first(d, i, rows, cols, cs) ==
    IF i > Len(data_fields) THEN [st |-> "ok", data |-> d, calls |-> cs]
    ELSE LET data_name == data_fields[i]
             r == check_and_convert(d[data_name], rows, cols, "from")
             filtered == filter(r.val, rows, cols, data_name)
             cs2 == cs \o r.calls \o <<Ev("postprocess", "filter", data_name, rows, cols)>>
         IN  IF r.st # "ok"
             THEN [st |-> r.st, data |-> d, calls |-> cs \o r.calls]
             ELSE PostLoop_convert_first(
                    [d EXCEPT ![data_name] = convert_to_original_type(filtered)],
                    i + 1, rows, cols,
                    cs2 \o <<Ev("postprocess", "convert_to_original_type", data_name, 0, 0)>>)

RECURSIVE PostLoop(_, _, _, _, _)
PostLoop(d, i, rows, cols, cs) ==
    IF i > Len(data_fields) THEN [st |-> "ok", data |-> d, calls |-> cs]
    ELSE LET data_name == data_fields[i]
             filtered == filter(d[data_name], rows, cols, data_name)
             r == check_and_convert(filtered, rows, cols, "from")
             cs2 == cs \o <<Ev("postprocess", "filter", data_name, rows, cols)>> \o r.calls
         IN  IF r.st # "ok"
             THEN [st |-> r.st, data |-> d, calls |-> cs2]
             ELSE PostLoop([d EXCEPT ![data_name] = convert_to_original_type(r.val)],
                           i + 1, rows, cols,
                           cs2 \o <<Ev("postprocess", "convert_to_original_type", data_name, 0, 0)>>)

postprocess(d) ==
    LET s == get_shape(d["image"])
        cs == <<Ev("postprocess", "get_shape", "", 0, 0)>>
    IN  IF s.st # "ok"
        THEN [st |-> s.st, kind |-> "raise", data |-> d, calls |-> cs, staged |-> d]
        ELSE LET r == PostLoop(d, 1, s.val[1], s.val[2], cs)
                 x == remove_label_fields_from_data(r.data)
             IN  IF r.st # "ok"
                 THEN [st |-> r.st, kind |-> "raise", data |-> r.data, calls |-> r.calls,
                       staged |-> r.data]
                 ELSE [st     |-> x.st,
                       kind   |-> IF x.st = "ok" THEN "mapping" ELSE "raise",
                       data   |-> x.data,
                       calls  |-> r.calls \o
                                  <<Ev("postprocess", "remove_label_fields_from_data", "", 0, 0)>>,
                       staged |-> r.data]

(***************************************************************************)
(* The inputs.                                                             *)
(***************************************************************************)
Formats == {"albumentations", "pascal_voc"}

LabelFieldChoices == {None, Some(<<>>), Some(<<"class_id">>), Some(<<"class_id", "score">>)}

TargetChoices ==
    {None,
     Some(<<<<"keypoints2", "keypoints">>>>),
     Some(<<<<"keypoints2", "keypoints">>, <<"bboxes2", "bboxes">>>>)}

\* Dense arrays are (H, W) or (H, W, C); tensors are (C, H, W); a list has no shape.
Images ==
    {[kind |-> "ndarray", shape |-> <<2, 4, 3>>],
     [kind |-> "ndarray", shape |-> <<4, 2>>],
     [kind |-> "tensor",  shape |-> <<1, 2, 4>>],
     [kind |-> "list",    shape |-> <<>>]}

RowPool == {<<0, 0, 1, 1>>, <<1, 1, 4, 2>>, <<0, 0, 5, 1>>}

\* The values of the j-th label field: distinct per field and per position.
LabelColumn(j, n) == [k \in 1..n |-> 10 * j + k]

LabelFieldsSeq == IF params.label_fields = None THEN <<>> ELSE Val(params.label_fields)

\* The mapping of one image: its rows per data field and a column per label field.
Mapping(img, rowsOf, lenOf) ==
    LET fields == LabelFieldsSeq
        keys == {"image"} \cup Range(data_fields) \cup Range(fields)
        Index(f) == CHOOSE j \in 1..Len(fields) : fields[j] = f
    IN  [k \in keys |->
            IF k = "image" THEN img
            ELSE IF k \in Range(data_fields) THEN rowsOf[k]
            ELSE LabelColumn(Index(k), lenOf[k])]

NoRet == [st |-> "ok", kind |-> "None", val |-> <<>>]

(***************************************************************************)
(* The state machine.                                                      *)
(***************************************************************************)
NoMapping == [k \in {"image"} |-> [kind |-> "list", shape |-> <<>>]]

Init ==
    /\ params \in [format : Formats, label_fields : LabelFieldChoices]
    /\ additional_targets \in TargetChoices
    /\ data_fields = DataFieldsOf(additional_targets)
    /\ data = NoMapping
    /\ phase = "constructed"
    /\ ret = NoRet
    /\ calls = <<>>
    /\ orig = data
    /\ prev = data
    /\ staged = data

\* The caller builds the data mapping of the next image.
Load ==
    /\ phase = "constructed"
    /\ \E img \in Images,
          rowsOf \in [Range(data_fields) -> SeqsUpTo(RowPool, MaxRows)],
          lenOf \in [Range(LabelFieldsSeq) -> 0..MaxRows] :
         LET d == Mapping(img, rowsOf, lenOf) IN
         /\ data' = d
         /\ orig' = d
         /\ prev' = d
         /\ staged' = d
    /\ phase' = "loaded"
    /\ ret' = NoRet
    /\ calls' = <<>>
    /\ UNCHANGED <<params, additional_targets, data_fields>>

Preprocess ==
    /\ phase = "loaded"
    /\ LET r == preprocess(data) IN
         /\ data' = r.data
         /\ ret' = [st |-> r.st, kind |-> r.kind, val |-> <<>>]
         /\ calls' = calls \o r.calls
    /\ phase' = "preprocessed"
    /\ prev' = data
    /\ UNCHANGED <<params, additional_targets, data_fields, orig, staged>>

Postprocess ==
    /\ \/ phase = "preprocessed" /\ ret.st = "ok"
       \/ phase = "merged" /\ ret.st = "ok"
    /\ LET r == postprocess(data) IN
         /\ data' = r.data
         /\ ret' = [st |-> r.st, kind |-> r.kind, val |-> <<>>]
         /\ calls' = calls \o r.calls
         /\ staged' = r.staged
    /\ phase' = IF phase = "preprocessed" THEN "postprocessed" ELSE "postprocessed_only"
    /\ prev' = data
    /\ UNCHANGED <<params, additional_targets, data_fields, orig>>

AddLabelFields ==
    /\ phase = "loaded"
    /\ LET r == add_label_fields_to_data(data) IN
         /\ data' = r.data
         /\ ret' = [st |-> r.st, kind |-> IF r.st = "ok" THEN "mapping" ELSE "raise", val |-> <<>>]
    /\ phase' = "merged"
    /\ prev' = data
    /\ UNCHANGED <<params, additional_targets, data_fields, calls, orig, staged>>

RemoveLabelFields ==
    /\ phase = "merged" /\ ret.st = "ok"
    /\ LET r == remove_label_fields_from_data(data) IN
         /\ data' = r.data
         /\ ret' = [st |-> r.st, kind |-> IF r.st = "ok" THEN "mapping" ELSE "raise", val |-> <<>>]
    /\ phase' = "split"
    /\ prev' = data
    /\ UNCHANGED <<params, additional_targets, data_fields, calls, orig, staged>>

Directions == {"to", "from", "TO"}

CheckAndConvert ==
    /\ phase = "loaded"
    /\ \E direction \in Directions :
         LET s == get_shape(data["image"])
             r == check_and_convert(data[default_data_name], s.val[1], s.val[2], direction)
         IN  /\ s.st = "ok"
             /\ ret' = [st |-> r.st, kind |-> IF r.st = "ok" THEN "rows" ELSE "raise",
                        val |-> IF r.st = "ok" THEN r.val ELSE <<>>]
             /\ calls' = <<Ev("caller", direction, default_data_name, s.val[1], s.val[2])>>
                           \o r.calls
    /\ phase' = "converted"
    /\ prev' = data
    /\ UNCHANGED <<params, additional_targets, data_fields, data, orig, staged>>

GetShape ==
    /\ phase = "loaded"
    /\ LET s == get_shape(data["image"]) IN
         ret' = [st |-> s.st, kind |-> IF s.st = "ok" THEN "shape" ELSE "raise", val |-> s.val]
    /\ phase' = "shaped"
    /\ prev' = data
    /\ UNCHANGED <<params, additional_targets, data_fields, data, calls, orig, staged>>

\* The caller is done with this image; the processor keeps nothing of it.
Release ==
    /\ phase \notin {"constructed", "loaded"}
    /\ data' = NoMapping
    /\ orig' = NoMapping
    /\ prev' = NoMapping
    /\ staged' = NoMapping
    /\ phase' = "constructed"
    /\ ret' = NoRet
    /\ calls' = <<>>
    /\ UNCHANGED <<params, additional_targets, data_fields>>

Next ==
    \/ Load
    \/ Release
    \/ Preprocess
    \/ Postprocess
    \/ AddLabelFields
    \/ RemoveLabelFields
    \/ CheckAndConvert
    \/ GetShape

Spec == Init /\ [][Next]_vars

(***************************************************************************)
(* Vocabulary of the properties.                                           *)
(***************************************************************************)
NumLabels == Len(LabelFieldsSeq)

\* Some data field and some declared label field differ in length.
Mismatch(d) ==
    \E f \in Range(data_fields), l \in Range(LabelFieldsSeq) : Len(d[f]) # Len(d[l])

\* The rows of field f of d, each followed by its label values in label_fields order.
Augmented(d, f) ==
    [k \in 1..Len(d[f]) |->
        d[f][k] \o [j \in 1..NumLabels |-> d[LabelFieldsSeq[j]][k]]]

Canonical == params.format = "albumentations"

\* What preprocess leaves under f, from f's own rows, the labels, the image and params.
PerFieldPre(f) ==
    LET hw == SubSeq(orig["image"].shape, 1, 2)
        aug == Augmented(orig, f)
    IN  IF Canonical THEN aug ELSE convert_to_albumentations(aug, hw[1], hw[2])

\* What postprocess leaves under f, from f's own rows, the image and params.
PerFieldPost(f) ==
    LET hw == get_shape(prev["image"]).val
        kept == filter(prev[f], hw[1], hw[2], f)
        back == IF Canonical THEN kept ELSE convert_from_albumentations(kept, hw[1], hw[2])
    IN  [k \in 1..Len(back) |-> DropLast(back[k], NumLabels)]

Postprocessed == phase \in {"postprocessed", "postprocessed_only"}

\* The calls postprocess made: the calls from its get_shape on.
PostCalls ==
    LET s == CHOOSE i \in 1..Len(calls) : calls[i].op = "get_shape"
    IN  SubSeq(calls, s, Len(calls))

ShapedOps == {"check", "convert_to_albumentations", "convert_from_albumentations", "filter"}

(***************************************************************************)
(* C1.  Round trip of labels: add_label_fields_to_data followed by         *)
(* remove_label_fields_from_data, with nothing changing the rows in        *)
(* between, leaves every data field and every label field of the mapping   *)
(* as the caller loaded it.                                                *)
(***************************************************************************)
C1_RoundTripLabels ==
    (phase = "split" /\ ret.st = "ok") =>
        /\ \A f \in Range(data_fields) : data[f] = orig[f]
        /\ \A l \in Range(LabelFieldsSeq) : data[l] = orig[l]

C1_Witness ==
    /\ phase = "split" /\ ret.st = "ok"
    /\ Len(data_fields) = 2 /\ NumLabels = 2
    /\ Len(orig[default_data_name]) = 2

(***************************************************************************)
(* C3.  Length-mismatch detection: add_label_fields_to_data, and preprocess *)
(* through it, raises ValueError exactly when some data field and some     *)
(* declared label field differ in length.                                  *)
(***************************************************************************)
C3_LengthMismatchDetection ==
    /\ phase = "merged" => (ret.st = "ValueError" <=> Mismatch(prev))
    /\ phase = "merged" => ret.st \in {"ok", "ValueError"}
    /\ phase = "preprocessed" => (ret.st = "ValueError" <=> Mismatch(prev))

C3_Witness ==
    /\ phase = "merged" /\ ret.st = "ValueError"
    /\ Len(data_fields) = 2 /\ NumLabels = 2
    /\ Len(prev[data_fields[1]]) = Len(prev[LabelFieldsSeq[1]])
    /\ Len(prev[data_fields[1]]) = Len(prev[LabelFieldsSeq[2]])
    /\ Len(prev[data_fields[2]]) < Len(prev[LabelFieldsSeq[1]])

(***************************************************************************)
(* C4.  Direction contract: for a format other than "albumentations",      *)
(* check_and_convert returns convert_to_albumentations' result for "to",   *)
(* convert_from_albumentations' result for "from", and for any other       *)
(* direction raises ValueError and calls neither converter.                *)
(***************************************************************************)
C4_DirectionContract ==
    (phase = "converted" /\ ~Canonical) =>
        LET direction == calls[1].op
            h == calls[1].h
            w == calls[1].w
            rs == data[default_data_name]
            made == Tail(calls)
        IN  /\ direction = "to" =>
                /\ ret.st = "ok"
                /\ ret.val = convert_to_albumentations(rs, h, w)
                /\ Len(made) = 1 /\ made[1].op = "convert_to_albumentations"
            /\ direction = "from" =>
                /\ ret.st = "ok"
                /\ ret.val = convert_from_albumentations(rs, h, w)
                /\ Len(made) = 1 /\ made[1].op = "convert_from_albumentations"
            /\ direction \notin {"to", "from"} =>
                /\ ret.st = "ValueError"
                /\ made = <<>>

C4_Witness ==
    /\ phase = "converted" /\ ~Canonical
    /\ calls[1].op = "TO"
    /\ ret.st = "ValueError"
    /\ Len(data[default_data_name]) = 2

(***************************************************************************)
(* C5.  Canonical sentinel: with format "albumentations", check_and_convert *)
(* with direction "to" or "from" calls check exactly once and no converter, *)
(* and what it returns is its input rows, unchanged.                       *)
(***************************************************************************)
C5_CanonicalSentinelIdentity ==
    (phase = "converted" /\ Canonical /\ calls[1].op \in {"to", "from"}) =>
        LET made == Tail(calls) IN
        /\ Len(made) = 1 /\ made[1].op = "check"
        /\ ret.st \in {"ok", "CheckError"}
        /\ ret.st = "ok" => ret.val = data[default_data_name]

C5_Witness ==
    /\ phase = "converted" /\ Canonical
    /\ calls[1].op = "from"
    /\ ret.st = "ok"
    /\ Len(ret.val) = 2

(***************************************************************************)
(* C6, as claimed.  preprocess returns the caller's mapping.               *)
(***************************************************************************)
C6_PreprocessReturnsMapping ==
    (phase = "preprocessed" /\ ret.st = "ok") => ret.kind = "mapping"

(***************************************************************************)
(* C6, amended.  preprocess mutates the caller's mapping in place and      *)
(* returns None: when it returns, every data field of the caller's mapping *)
(* holds its label-augmented rows as check_and_convert(direction "to")     *)
(* gives them for (rows, cols) = data["image"].shape[:2].                  *)
(***************************************************************************)
C6_PreprocessMutatesInPlace ==
    (phase = "preprocessed" /\ ret.st = "ok") =>
        /\ ret.kind = "None"
        /\ \A f \in Range(data_fields) : data[f] = PerFieldPre(f)

C6_Witness ==
    /\ phase = "preprocessed" /\ ret.st = "ok" /\ ret.kind = "None"
    /\ ~Canonical /\ NumLabels = 2
    /\ Len(orig[default_data_name]) = 2
    /\ data[default_data_name] # orig[default_data_name]

(***************************************************************************)
(* C7.  Aliased fields: data_fields is the default data name followed by   *)
(* exactly the additional_targets keys whose value is the default data     *)
(* name, and preprocess and postprocess leave under each data field rows   *)
(* that depend on that field's own rows, the label fields, the image shape *)
(* and params only.                                                        *)
(***************************************************************************)
C7_AliasedFields ==
    LET items == IF additional_targets = None THEN <<>> ELSE Val(additional_targets)
        hits == {i \in 1..Len(items) : items[i][2] = default_data_name}
    IN  /\ data_fields[1] = default_data_name
        /\ Len(data_fields) = 1 + Cardinality(hits)
        /\ \A i \in hits : \E p \in 2..Len(data_fields) : data_fields[p] = items[i][1]
        /\ \A p \in 2..Len(data_fields) : \E i \in hits : data_fields[p] = items[i][1]
        /\ (phase = "preprocessed" /\ ret.st = "ok") =>
              \A f \in Range(data_fields) : data[f] = PerFieldPre(f)
        /\ (Postprocessed /\ ret.st = "ok") =>
              \A f \in Range(data_fields) : data[f] = PerFieldPost(f)

C7_Witness ==
    /\ phase = "postprocessed" /\ ret.st = "ok"
    /\ data_fields = <<"bboxes", "bboxes2">>
    /\ Len(Val(additional_targets)) = 2
    /\ data["bboxes"] # <<>> /\ data["bboxes2"] # <<>>
    /\ data["bboxes"] # data["bboxes2"]

(***************************************************************************)
(* C8, as claimed.  After postprocess, with label fields declared, every   *)
(* label field is as long as every data field and its entry i is the label *)
(* that was attached to row i of that data field.                          *)
(***************************************************************************)
C8_LabelsMatchEveryField ==
    (phase = "postprocessed" /\ ret.st = "ok" /\ NumLabels > 0) =>
        \A f \in Range(data_fields) : \A j \in 1..NumLabels :
            /\ Len(data[LabelFieldsSeq[j]]) = Len(data[f])
            /\ \A i \in 1..Len(data[f]) :
                 data[LabelFieldsSeq[j]][i] = FromEnd(staged[f][i], NumLabels, j - 1)

(***************************************************************************)
(* C9.  Step order: postprocess applies, field by field in data_fields     *)
(* order, filter, then check_and_convert "from", then                      *)
(* convert_to_original_type, and splits the labels off only after the last *)
(* field; preprocess merges the labels before any conversion, never calls  *)
(* filter and drops no row.                                                *)
(***************************************************************************)
C9_StepOrder ==
    /\ Postprocessed =>
         LET post == PostCalls
             n == Len(data_fields)
         IN  /\ ret.st = "ok" =>
                  /\ Len(post) = 3 * n + 2
                  /\ \A i \in 1..n :
                       /\ post[3 * i - 1].op = "filter"
                       /\ post[3 * i - 1].field = data_fields[i]
                       /\ post[3 * i].op \in {"check", "convert_from_albumentations"}
                       /\ post[3 * i + 1].op = "convert_to_original_type"
                       /\ post[3 * i + 1].field = data_fields[i]
             /\ \A k \in 1..Len(post) :
                  post[k].op = "remove_label_fields_from_data" =>
                      /\ k = 3 * n + 2
                      /\ k = Len(post)
    /\ phase = "preprocessed" =>
         /\ calls[1].op = "add_label_fields_to_data"
         /\ \A k \in 2..Len(calls) :
              calls[k].op \in {"convert_to_internal_type", "check", "convert_to_albumentations"}
         /\ ret.st = "ok" => \A f \in Range(data_fields) : Len(data[f]) = Len(orig[f])

C9_Witness ==
    /\ phase = "postprocessed" /\ ret.st = "ok"
    /\ Len(data_fields) = 2 /\ NumLabels = 1
    /\ Len(PostCalls) = 8
    /\ Len(data[default_data_name]) < Len(orig[default_data_name])

(***************************************************************************)
(* C10, as claimed.  The (height, width) preprocess passes to              *)
(* check_and_convert is the one postprocess passes to filter and to        *)
(* check_and_convert for the same image: get_shape(image).                 *)
(***************************************************************************)
C10_SameShapeBothPhases ==
    (phase = "postprocessed") =>
        \A k \in 1..Len(calls) :
            calls[k].op \in ShapedOps =>
                <<calls[k].h, calls[k].w>> = get_shape(data["image"]).val

(***************************************************************************)
(* C2, as claimed.  Positional correspondence end to end: with label       *)
(* fields declared and a filter that kept every row, preprocess followed   *)
(* by postprocess gives back every data field's rows and every label       *)
(* field's values as the caller loaded them.                               *)
(***************************************************************************)
C2_RoundTripEndToEnd ==
    (/\ phase = "postprocessed" /\ ret.st = "ok" /\ NumLabels > 0
     /\ \A f \in Range(data_fields) : Len(staged[f]) = Len(prev[f])) =>
        /\ \A f \in Range(data_fields) : data[f] = orig[f]
        /\ \A l \in Range(LabelFieldsSeq) : data[l] = orig[l]

====
